---- MODULE Spec2Model ----
(***************************************************************************)
(* A model of geronimo-captcha: the challenge identity protocol            *)
(* (challenge.rs: build_challenge_id / verify), the in-memory challenge    *)
(* registry with its timing wheel (registry.rs) and the manager facade     *)
(* (manager.rs: generate_challenge / verify_challenge), and generate with  *)
(* the sprite composer and the encoders (sprite.rs, image.rs).             *)
(*                                                                         *)
(* Strings are sequences of characters.  A character is a tuple: a plain   *)
(* character is the 1-tuple <<"c">>; the 36 characters of a UUID are the   *)
(* single symbol <<"u1">>, <<"u2">>, ...; the 44 base64 characters of an   *)
(* HMAC-SHA256 value m are the single symbol <<"b64", m>>.                 *)
(***************************************************************************)
EXTENDS Integers, Sequences, FiniteSets, TLC

VARIABLES
    now,      \* utils::get_timestamp(): the wall clock, in seconds
    cfg,      \* CaptchaManager fields: registry?, challenge_ttl; registry ttl, max_attempts
    secret,   \* CaptchaManager.secret
    gen,      \* generate_challenge between minting an id and registering it
    issued,   \* the challenges generate_challenge has returned, in order
    cache,    \* ChallengeInMemoryRegistry.cache: id -> ChallengeStatus
    wheel,    \* ChallengeInMemoryRegistry.wheel: buckets, pos, last_tick
    th,       \* per caller thread: position in verify_challenge and its locals
    hist,     \* history: per id, how many calls returned Ok(true) / Ok(false)
    calls,    \* history: number of verify_challenge calls begun
    ev,       \* history: the latest verify_challenge call begun or returned
    p,        \* the protocol harness: one mint and one verify of challenge.rs
    rg,       \* direct use of the registry: its callers and the history of their calls
    sp        \* one call of generate: the composer's locals and what it returns

vars == <<now, cfg, secret, gen, issued, cache, wheel, th, hist, calls, ev, p, rg, sp>>

----------------------------------------------------------------------------
(* Bounds of the model *)

MaxTime == 3        \* the clock runs from its start value up to MaxTime
MaxStart == 1       \* the manager is constructed at a second in 0..MaxStart
MaxTtl == 2         \* challenge_ttl and the registry ttl are drawn from 0..MaxTtl
MaxAttempts == 2    \* max_attempts is drawn from 0..MaxAttempts
MaxGen == 1         \* generate_challenge calls
MaxCalls == 3       \* verify_challenge calls
NThreads == 2       \* concurrent callers
MaxGuess == 10      \* guesses (u8) are drawn from 0..MaxGuess
MaxAnswer == 2      \* the manager's composer returns a digit in 1..MaxAnswer
MaxRegTime == 6     \* the clock of the registry used on its own runs up to MaxRegTime
MaxRegCalls == 4    \* direct calls of the registry
MaxConcCalls == 3
MaxBack == 1
MaxCell == 5   \* register and check calls of concurrent callers

Threads == 1..NThreads
Secrets == {"k1", "k2"}
Digits == 1..9      \* the digits the composer returns (grid index + 1)

Min(a, b) == IF a < b THEN a ELSE b
Max(a, b) == IF a > b THEN a ELSE b

----------------------------------------------------------------------------
(* Strings *)

Ch(c) == <<c>>
Colon == Ch(":")
Str(cs) == [i \in 1..Len(cs) |-> Ch(cs[i])]

DigitChars == <<"0", "1", "2", "3", "4", "5", "6", "7", "8", "9">>
IsDigit(c) == \E d \in 1..10 : c = Ch(DigitChars[d])
DigitVal(c) == (CHOOSE d \in 1..10 : c = Ch(DigitChars[d])) - 1

\* format!("{timestamp}"): the decimal digits of n, no leading zero
RECURSIVE FormatU64(_)
FormatU64(n) ==
    IF n < 10 THEN <<Ch(DigitChars[n + 1])>>
    ELSE FormatU64(n \div 10) \o <<Ch(DigitChars[(n % 10) + 1])>>

\* The width of u64 in the model: TLC's integers end at 2^31 - 1, so the
\* largest timestamp and ttl is 2^31 - 1 where the program has 2^64 - 1.
U64_MAX == 2147483647

\* u64::saturating_add / saturating_sub
SaturatingAdd(a, b) == IF b > U64_MAX - a THEN U64_MAX ELSE a + b
SaturatingSub(a, b) == IF b > a THEN 0 ELSE a - b

\* str::parse::<u64>(): an optional '+', then one or more decimal digits,
\* the value within the width; anything else is an error.
RECURSIVE DecimalValue(_, _)
DecimalValue(s, acc) ==
    IF acc < 0 \/ s = <<>> THEN acc
    ELSE LET d == DigitVal(Head(s)) IN
         IF acc > (U64_MAX - d) \div 10 THEN -1
         ELSE DecimalValue(Tail(s), acc * 10 + d)

ParseU64(s) ==
    LET body == IF s # <<>> /\ Head(s) = Ch("+") THEN Tail(s) ELSE s
        v == IF body = <<>> \/ \E i \in 1..Len(body) : ~IsDigit(body[i])
             THEN -1 ELSE DecimalValue(body, 0)
    IN [ok |-> v >= 0, val |-> v]

\* str::split(':'): the fields between the colons; "" has one empty field
RECURSIVE Split(_)
Split(s) ==
    IF \A i \in 1..Len(s) : s[i] # Colon THEN <<s>>
    ELSE LET i == CHOOSE k \in 1..Len(s) :
                      s[k] = Colon /\ \A j \in 1..(k - 1) : s[j] # Colon
         IN <<SubSeq(s, 1, i - 1)>> \o Split(SubSeq(s, i + 1, Len(s)))

----------------------------------------------------------------------------
(* The challenge identity protocol: challenge.rs *)

\* Uuid::new_v4().to_string(): the k-th nonce drawn; the 36 characters of a
\* UUID are one symbol, and two draws never collide.
NonceChars == <<"u1", "u2", "u3">>
Nonce(k) == <<Ch(NonceChars[k])>>

\* u64::to_be_bytes(): eight bytes, most significant first (the upper four
\* are zero within the model's width)
to_be_bytes(n) ==
    [i \in 1..8 |-> IF i <= 4 THEN 0 ELSE (n \div (256 ^ (8 - i))) % 256]

\* HMAC-SHA256 over nonce bytes, one digit byte and the eight timestamp
\* bytes, as an ideal MAC: the value names its key and its message, so two
\* values are equal only for equal keys and messages.  The message is kept
\* as its three updates; the last nine bytes of the concatenation are the
\* digit and the timestamp, so the concatenation determines all three.
\* mutants: the digit byte is never fed to the MAC; the key is a fixed one
HmacSha256_no_digit(key, nonce, digit, timestamp) ==
    <<key, nonce, 0, to_be_bytes(timestamp)>>
HmacSha256_fixed_key(key, nonce, digit, timestamp) ==
    <<"k1", nonce, digit, to_be_bytes(timestamp)>>

HmacSha256(key, nonce, digit, timestamp) ==
    <<key, nonce, digit, to_be_bytes(timestamp)>>

\* computed.len(): the length of an HMAC-SHA256 value in bytes
HMAC_LEN == 32

\* BASE64_STANDARD.encode of an HMAC value: 44 characters, one symbol
Base64Encode(mac) == << <<"b64", mac>> >>

IsB64Symbol(c) == Len(c) = 2
B64Plain == {Ch(DigitChars[d]) : d \in 1..10} \cup {Ch("A"), Ch("Q"), Ch("+"), Ch("/")}

\* BASE64_STANDARD.decode: an error on a character outside the alphabet, on
\* data after padding and on a length that is no multiple of four; else the
\* decoded bytes, of which the model keeps the length and, for exactly the
\* 44 characters of an encoded HMAC value, the value.
Base64Decode(s) ==
    LET n == Len(s)
        endsSym == n > 0 /\ IsB64Symbol(s[n])
        pre == IF endsSym THEN SubSeq(s, 1, n - 1) ELSE s
        m == Len(pre)
        pads == IF endsSym THEN 0
                ELSE IF m >= 2 /\ pre[m] = Ch("=") /\ pre[m - 1] = Ch("=") THEN 2
                ELSE IF m >= 1 /\ pre[m] = Ch("=") THEN 1 ELSE 0
        data == SubSeq(pre, 1, m - pads)
        ok == /\ \A i \in 1..Len(data) : data[i] \in B64Plain
              /\ m % 4 = 0
    IN IF ~ok THEN [ok |-> FALSE, len |-> 0, val |-> <<"err", s>>]
       ELSE IF endsSym /\ m = 0 THEN [ok |-> TRUE, len |-> HMAC_LEN, val |-> s[n][2]]
       ELSE [ok |-> TRUE,
             len |-> (3 * (m \div 4)) - pads + (IF endsSym THEN HMAC_LEN ELSE 0),
             val |-> <<"raw", s>>]

\* subtle::ConstantTimeEq on two byte strings of equal length
ct_eq(a, b) == a = b

\* mutant: the authenticator is computed over the grid index, not the digit
build_challenge_id_index(correct_number, key, nonce, timestamp) ==
    nonce \o <<Colon>> \o FormatU64(timestamp) \o <<Colon>>
          \o Base64Encode(HmacSha256(key, nonce, correct_number - 1, timestamp))

\* build_challenge_id, with the nonce and the clock reading it draws
build_challenge_id(correct_number, key, nonce, timestamp) ==
    nonce \o <<Colon>> \o FormatU64(timestamp) \o <<Colon>>
          \o Base64Encode(HmacSha256(key, nonce, correct_number, timestamp))

\* mutants: expired already at timestamp + ttl; the comparison reversed
Expired_at_boundary(t, timestamp, ttl) == t >= SaturatingAdd(timestamp, ttl)
Expired_reversed(t, timestamp, ttl) == timestamp > SaturatingAdd(t, ttl)

\* the expiry test of verify
Expired(t, timestamp, ttl) == t > SaturatingAdd(timestamp, ttl)

\* mutant: an id of more than three fields is taken by its first three
verify_first_three_fields(key, challenge_id, selected_index, ttl, t) ==
    LET parts == Split(challenge_id) IN
    IF Len(parts) < 3 THEN FALSE
    ELSE LET timestamp == ParseU64(parts[2])
             expected == Base64Decode(parts[3])
         IN /\ timestamp.ok
            /\ ~Expired(t, timestamp.val, ttl)
            /\ expected.ok
            /\ expected.len = HMAC_LEN
            /\ ct_eq(HmacSha256(key, parts[1], selected_index, timestamp.val),
                     expected.val)

\* challenge::verify, with the clock reading t it takes
verify(key, challenge_id, selected_index, ttl, t) ==
    LET parts == Split(challenge_id) IN
    IF Len(parts) # 3 THEN FALSE
    ELSE LET nonce == parts[1]
             timestamp == ParseU64(parts[2])
             expected_code_b64 == parts[3]
         IN IF ~timestamp.ok THEN FALSE
            ELSE IF Expired(t, timestamp.val, ttl) THEN FALSE
            ELSE LET computed == HmacSha256(key, nonce, selected_index, timestamp.val)
                     expected == Base64Decode(expected_code_b64)
                 IN IF ~expected.ok THEN FALSE
                    ELSE IF expected.len # HMAC_LEN THEN FALSE
                    ELSE ct_eq(computed, expected.val)

\* the length in bytes of a string: a nonce symbol stands for the 36
\* characters of a hyphenated UUID, an authenticator symbol for the 44
\* characters of a base64-encoded HMAC value
UUID_LEN == 36
B64_HMAC_LEN == 44
CharLen(c) ==
    IF IsB64Symbol(c) THEN B64_HMAC_LEN
    ELSE IF c[1] \in {NonceChars[k] : k \in DOMAIN NonceChars} THEN UUID_LEN
    ELSE 1
RECURSIVE StrLen(_)
StrLen(s) == IF s = <<>> THEN 0 ELSE CharLen(Head(s)) + StrLen(Tail(s))

\* the bytes of a decoded authenticator.  SHA-256 is not computed: byte i of
\* an HMAC value is a symbol, and the values of one key, nonce and timestamp
\* for digits d and g share their first min(d, g) bytes, so that the first
\* differing byte of two values takes different positions; the last byte
\* names the whole message, so two byte strings are equal only for equal
\* values.
Bytes(v) ==
    [i \in 1..HMAC_LEN |->
        IF Len(v) = 4 /\ i <= v[3] % HMAC_LEN
        THEN <<v[1], v[2], v[4], i>> ELSE <<v, i>>]

\* mutant: a comparison that returns at the first differing byte
ct_eq_steps_early_exit(a, b) ==
    LET differ == {i \in 1..HMAC_LEN : a[i] # b[i]}
        last == IF differ = {} THEN HMAC_LEN
                ELSE CHOOSE i \in differ : \A j \in differ : i <= j
    IN [i \in 1..last |-> [op |-> "ct_eq_byte", len |-> 1]]

\* the steps of subtle's ct_eq on two slices of equal length: every pair of
\* bytes is compared and the outcomes are and-ed, whatever the bytes are
ct_eq_steps(a, b) ==
    [i \in 1..HMAC_LEN |-> [op |-> "ct_eq_byte", len |-> 1]]

\* the steps verify executes after its expiry test, each with the number of
\* bytes it works on: the HMAC is keyed and fed its three updates, the
\* third field is decoded, the lengths are compared and the values are
\* compared.  (new_from_slice accepts a key of any length.)
verify_steps(key, challenge_id, selected_index, ttl, t) ==
    LET parts == Split(challenge_id)
        nonce == parts[1]
        timestamp == ParseU64(parts[2])
        expected_code_b64 == parts[3]
        computed == HmacSha256(key, nonce, selected_index, timestamp.val)
        expected == Base64Decode(expected_code_b64)
        mac == << [op |-> "new_from_slice", len |-> 0],
                  [op |-> "update", len |-> StrLen(nonce)],
                  [op |-> "update", len |-> Len(<<selected_index>>)],
                  [op |-> "update", len |-> Len(to_be_bytes(timestamp.val))],
                  [op |-> "finalize", len |-> HMAC_LEN],
                  [op |-> "decode", len |-> StrLen(expected_code_b64)] >>
    IN IF Len(parts) # 3 \/ ~timestamp.ok \/ Expired(t, timestamp.val, ttl)
       THEN <<>>
       ELSE IF ~expected.ok THEN mac
       ELSE IF expected.len # HMAC_LEN
       THEN Append(mac, [op |-> "len", len |-> 0])
       ELSE Append(mac, [op |-> "len", len |-> 0])
                \o ct_eq_steps(Bytes(computed), Bytes(expected.val))

----------------------------------------------------------------------------
(* The registry: registry.rs *)

\* attempts_count is a u16
U16_MAX == 65535

NoIds == [x \in {} |-> 0]

\* ChallengeInMemoryRegistry::new at second t
WheelLen(ttl) == Max(ttl, 1)
NewWheel(ttl, t) ==
    [buckets |-> [i \in 1..WheelLen(ttl) |-> <<>>],
     pos |-> t % WheelLen(ttl),
     last_tick |-> t,
     len |-> WheelLen(ttl)]

Range(q) == {q[i] : i \in 1..Len(q)}

\* mutant: every drained id is removed, expired or not
GenuinelyExpired_always(t, timestamp, ttl) == TRUE

\* the test of advance_wheel on a drained id that is still in the map
GenuinelyExpired(t, timestamp, ttl) == SaturatingSub(t, timestamp) >= ttl

\* the inner loop of advance_wheel: the ids of one drained bucket
DrainBucket(c, ids, t, ttl) ==
    LET gone == {id \in Range(ids) :
                    id \in DOMAIN c /\ GenuinelyExpired(t, c[id].timestamp, ttl)}
    IN [id \in (DOMAIN c) \ gone |-> c[id]]

\* the outer loop of advance_wheel: `steps` rotations of the cursor
RECURSIVE Rotate(_, _, _, _, _)
Rotate(c, w, steps, t, ttl) ==
    IF steps = 0 THEN [cache |-> c, wheel |-> w]
    ELSE LET pos == (w.pos + 1) % w.len
             expired_ids == w.buckets[pos + 1]
             w1 == [w EXCEPT !.pos = pos, !.buckets[pos + 1] = <<>>]
         IN Rotate(DrainBucket(c, expired_ids, t, ttl), w1, steps - 1, t, ttl)

advance_wheel(c, w, t, ttl) ==
    IF t <= w.last_tick THEN [cache |-> c, wheel |-> w]
    ELSE LET steps == Min(t - w.last_tick, w.len)
             r == Rotate(c, w, steps, t, ttl)
         IN [cache |-> r.cache, wheel |-> [r.wheel EXCEPT !.last_tick = t]]

schedule_expiry(w, id, t, ttl) ==
    LET target == (t + ttl) % w.len
    IN [w EXCEPT !.buckets[target + 1] = Append(@, id)]

register(c, w, id, t, ttl) ==
    LET a == advance_wheel(c, w, t, ttl)
        fresh == [verified |-> FALSE, attempts_count |-> 0, timestamp |-> t]
    IN [cache |-> [x \in (DOMAIN a.cache) \cup {id} |->
                      IF x = id THEN fresh ELSE a.cache[x]],
        wheel |-> schedule_expiry(a.wheel, id, t, ttl)]

\* mutant: the attempts are compared before the verified flag
check_result_attempts_first(c, id, t, ttl, max_attempts) ==
    IF id \in DOMAIN c
    THEN IF c[id].attempts_count >= max_attempts THEN "MaxAttemptsLimitExceeded"
         ELSE IF c[id].verified THEN "AlreadyVerified"
         ELSE IF SaturatingSub(t, c[id].timestamp) <= ttl THEN "Ok"
         ELSE "NotRegistered"
    ELSE "NotRegistered"

\* mutant: the age of the record is not compared with the ttl
check_result_no_ttl(c, id, t, ttl, max_attempts) ==
    IF id \in DOMAIN c
    THEN IF c[id].verified THEN "AlreadyVerified"
         ELSE IF c[id].attempts_count >= max_attempts THEN "MaxAttemptsLimitExceeded"
         ELSE "Ok"
    ELSE "NotRegistered"

\* mutant: the limit is reached only above max_attempts
check_result_gt(c, id, t, ttl, max_attempts) ==
    IF id \in DOMAIN c
    THEN IF c[id].verified THEN "AlreadyVerified"
         ELSE IF c[id].attempts_count > max_attempts THEN "MaxAttemptsLimitExceeded"
         ELSE IF SaturatingSub(t, c[id].timestamp) <= ttl THEN "Ok"
         ELSE "NotRegistered"
    ELSE "NotRegistered"

\* the decision of check on the map as it is after the wheel advanced
check_result(c, id, t, ttl, max_attempts) ==
    IF id \in DOMAIN c
    THEN IF c[id].verified THEN "AlreadyVerified"
         ELSE IF c[id].attempts_count >= max_attempts THEN "MaxAttemptsLimitExceeded"
         ELSE IF SaturatingSub(t, c[id].timestamp) <= ttl THEN "Ok"
         ELSE "NotRegistered"
    ELSE "NotRegistered"

check(c, w, id, t, ttl, max_attempts) ==
    LET a == advance_wheel(c, w, t, ttl)
    IN [cache |-> a.cache, wheel |-> a.wheel,
        result |-> check_result(a.cache, id, t, ttl, max_attempts)]

\* mutants: verify leaves the record as it is; verify inserts a verified
\* record for an id that has none
registry_verify_forgets(c, id) == c
registry_verify_upsert(c, id) ==
    [x \in (DOMAIN c) \cup {id} |->
        IF x \in DOMAIN c THEN [c[x] EXCEPT !.verified = (x = id) \/ @]
        ELSE [verified |-> TRUE, attempts_count |-> 0, timestamp |-> 0]]

\* ChallengeInMemoryRegistry::verify
registry_verify(c, id) ==
    IF id \in DOMAIN c THEN [c EXCEPT ![id].verified = TRUE] ELSE c

\* mutant: the counter wraps around instead of saturating
note_attempt_wraps(c, id, success) ==
    IF id \in DOMAIN c /\ ~success
    THEN [c EXCEPT ![id].attempts_count = (@ + 1) % (U16_MAX + 1)]
    ELSE c

\* mutant: a successful attempt is counted too
note_attempt_counts_success(c, id, success) ==
    IF id \in DOMAIN c
    THEN [c EXCEPT ![id].attempts_count = Min(@ + 1, U16_MAX)]
    ELSE c

note_attempt(c, id, success) ==
    IF id \in DOMAIN c /\ ~success
    THEN [c EXCEPT ![id].attempts_count = Min(@ + 1, U16_MAX)]
    ELSE c

\* k calls of note_attempt(id, false): saturating_add(1) k times
note_attempts(c, id, k) ==
    IF id \in DOMAIN c
    THEN [c EXCEPT ![id].attempts_count = Min(@ + k, U16_MAX)]
    ELSE c

----------------------------------------------------------------------------
(* The manager: manager.rs *)

\* mutant: the upper bound on the selected index is not tested
invalid_input_no_upper(challenge_id, selected_index) ==
    challenge_id = <<>> \/ selected_index = 0

\* the two input tests that open verify_challenge
invalid_input(challenge_id, selected_index) ==
    challenge_id = <<>> \/ selected_index = 0 \/ selected_index > 9

\* mutant: only an already verified challenge is turned away
rejected_by_registry_verified_only(result) == result = "AlreadyVerified"

\* `result != RegistryCheckResult::Ok`
rejected_by_registry(result) == result # "Ok"

OtherSecret(k) == CHOOSE k2 \in Secrets : k2 # k

\* What a caller may present as a challenge id: the empty string, an id the
\* manager issued, an issued id whose authenticator was recomputed under
\* another secret, and strings that are no well-formed id.
Forged(ch) ==
    build_challenge_id(ch.correct_number, OtherSecret(secret), ch.nonce, ch.timestamp)
Malformed ==
    {Str(<<"x">>),
     Str(<<"a", ":", "b", ":", "c">>),
     Str(<<"a", ":", "0", ":", "!">>),
     Str(<<"a", ":", "0", ":", "A", "Q", "A", "Q">>)}
MalformedSample == {Str(<<"a", ":", "0", ":", "!">>)}
\* the guesses callers of the manager make: 0, the digits the composer
\* may have returned, and the bytes above 9
GuessSample == 0..MaxAnswer \cup 10..MaxGuess
IssuedIds == {issued[i].challenge_id : i \in 1..Len(issued)}
Presentable ==
    {<<>>} \cup IssuedIds \cup {Forged(issued[i]) : i \in 1..Len(issued)}
           \cup MalformedSample

NoChallenge ==
    [challenge_id |-> <<>>, timestamp |-> 0, correct_number |-> 0, nonce |-> <<>>]
NotGenerating == [pc |-> "idle", challenge |-> NoChallenge]
Idle == [pc |-> "idle", id |-> <<>>, guess |-> 0, result |-> "none", valid |-> FALSE]
NoEvent == [id |-> <<>>, guess |-> 0, res |-> "none", chk |-> "none"]
NoProto ==
    [pc |-> "off", key |-> "k1", answer |-> 0, id |-> <<>>, timestamp |-> 0,
     kind |-> "none", pkey |-> "k1", presented |-> <<>>,
     vkey |-> "k1", guess |-> 0, ttl |-> 0, at |-> 0, result |-> FALSE,
     steps |-> <<>>]

\* the ids direct callers of the registry use, and what is remembered of
\* the calls on an id: the register calls made, the clock reading of the
\* latest one, and the note_attempt(id, false) and verify calls made since
RegIds == {Str(<<"a">>), Str(<<"b">>)}
\* (regs counts the register calls begun, done those that have returned)
NoHistory == [regs |-> 0, done |-> 0, created_at |-> 0, fails |-> 0, verified |-> FALSE]
\* the latest call that returned: the clock reading it took, the second it
\* returned in, and the history of its id when it began and when it returned
NoCall ==
    [op |-> "none", id |-> <<>>, at |-> 0, ret |-> 0, result |-> "none",
     present |-> FALSE, before |-> NoHistory, after |-> NoHistory]
\* a concurrent caller of the registry: the call it is in, the clock reading
\* the call took, and the ids its sweep has drained and not yet looked up
\* no call of generate is in progress
NoTile ==
    [shrink_size |-> 0, base_x |-> 0, base_y |-> 0,
     signed_x |-> 0, signed_y |-> 0, draw_x |-> 0, draw_y |-> 0]
NoResult ==
    [ok |-> FALSE, err |-> "none", bytes |-> <<>>, mime |-> "none",
     sprite |-> <<>>, challenge_id |-> <<>>, correct_number |-> 0]
NoSprite ==
    [pc |-> "off", cell_size |-> 0, tiles |-> <<>>, i |-> 0,
     correct_number |-> 0, placed |-> <<>>, tile |-> NoTile,
     encoder_failed |-> FALSE, by |-> "none", result |-> NoResult]

RegIdle ==
    [pc |-> "idle", op |-> "none", id |-> <<>>, at |-> 0, pending |-> <<>>,
     before |-> NoHistory]
NoRegistryUse ==
    [hist |-> [id \in RegIds |-> NoHistory], ev |-> NoCall, calls |-> 0,
     th |-> [t \in Threads |-> RegIdle],
     overlap |-> FALSE,   \* two register calls have been in progress at once
     back |-> 0]          \* backward steps of the wall clock so far

Bump(h, id, valid) ==
    LET old == IF id \in DOMAIN h THEN h[id] ELSE [ok_true |-> 0, ok_false |-> 0]
        new == IF valid THEN [old EXCEPT !.ok_true = @ + 1]
               ELSE [old EXCEPT !.ok_false = @ + 1]
    IN [x \in (DOMAIN h) \cup {id} |-> IF x = id THEN new ELSE h[x]]

\* CaptchaManager::new with Some(ChallengeInMemoryRegistry::new(ttl, max_attempts))
WithRegistry ==
    [registry : {TRUE}, challenge_ttl : 0..MaxTtl,
     ttl : 0..MaxTtl, max_attempts : 0..MaxAttempts]
\* CaptchaManager::new with None for the registry
WithoutRegistry ==
    [registry : {FALSE}, challenge_ttl : 0..MaxTtl, ttl : {0}, max_attempts : {0}]

Start(configs) ==
    /\ now \in 0..MaxStart
    /\ cfg \in configs
    /\ secret = "k1"
    /\ gen = NotGenerating
    /\ issued = <<>>
    /\ cache = NoIds
    /\ wheel = NewWheel(cfg.ttl, now)
    /\ th = [t \in Threads |-> Idle]
    /\ hist = NoIds
    /\ calls = 0
    /\ ev = NoEvent
    /\ rg = NoRegistryUse
    /\ sp = NoSprite

Init == Start(WithRegistry) /\ p = NoProto
InitNoRegistry == Start(WithoutRegistry) /\ p = NoProto

\* the clock moves on by a second
Tick ==
    /\ now < MaxTime
    /\ now' = now + 1
    /\ UNCHANGED <<cfg, secret, gen, issued, cache, wheel, th, hist, calls, ev, p, rg, sp>>

\* CaptchaManager::generate_challenge up to the minted id: the composer
\* returns the digit correct_number and build_challenge_id reads the clock
generate_mint(correct_number) ==
    /\ gen.pc = "idle"
    /\ Len(issued) < MaxGen
    /\ LET nonce == Nonce(Len(issued) + 1)
           challenge ==
               [challenge_id |-> build_challenge_id(correct_number, secret, nonce, now),
                timestamp |-> now, correct_number |-> correct_number, nonce |-> nonce]
       IN gen' = [pc |-> "minted", challenge |-> challenge]
    /\ UNCHANGED <<now, cfg, secret, issued, cache, wheel, th, hist, calls, ev, p, rg, sp>>

\* generate_challenge: with a registry its register, which reads the clock
\* again, and then the return of the challenge
generate_register ==
    /\ gen.pc = "minted"
    /\ IF cfg.registry
       THEN LET reg == register(cache, wheel, gen.challenge.challenge_id, now, cfg.ttl)
            IN cache' = reg.cache /\ wheel' = reg.wheel
       ELSE UNCHANGED <<cache, wheel>>
    /\ issued' = Append(issued, gen.challenge)
    /\ gen' = NotGenerating
    /\ UNCHANGED <<now, cfg, secret, th, hist, calls, ev, p, rg, sp>>

\* mutant: the registry's check is made whether a registry is attached or not
verify_begin_checks_always(t, challenge_id, selected_index) ==
    /\ th[t].pc = "idle"
    /\ calls < MaxCalls
    /\ calls' = calls + 1
    /\ LET reg == check(cache, wheel, challenge_id, now, cfg.ttl, cfg.max_attempts)
           call == [id |-> challenge_id, guess |-> selected_index,
                    res |-> "none", chk |-> "none"]
       IN IF invalid_input(challenge_id, selected_index)
          THEN /\ ev' = [call EXCEPT !.res = "Err(InvalidInput)"]
               /\ UNCHANGED <<cache, wheel, th>>
          ELSE /\ cache' = reg.cache
               /\ wheel' = reg.wheel
               /\ IF rejected_by_registry(reg.result)
                  THEN /\ ev' = [call EXCEPT !.res = "Err(Registry)", !.chk = reg.result]
                       /\ UNCHANGED th
                  ELSE /\ ev' = ev
                       /\ th' = [th EXCEPT ![t] = [pc |-> "checked", id |-> challenge_id,
                                                   guess |-> selected_index,
                                                   result |-> reg.result,
                                                   valid |-> FALSE]]
    /\ UNCHANGED <<now, cfg, secret, gen, issued, hist, p, rg, sp>>

\* CaptchaManager::verify_challenge up to the registry's check
verify_begin(t, challenge_id, selected_index) ==
    /\ th[t].pc = "idle"
    /\ calls < MaxCalls
    /\ calls' = calls + 1
    /\ LET reg == check(cache, wheel, challenge_id, now, cfg.ttl, cfg.max_attempts)
           call == [id |-> challenge_id, guess |-> selected_index,
                    res |-> "none", chk |-> "none"]
       IN IF invalid_input(challenge_id, selected_index)
          THEN /\ ev' = [call EXCEPT !.res = "Err(InvalidInput)"]
               /\ UNCHANGED <<cache, wheel, th>>
          ELSE IF cfg.registry
          THEN /\ cache' = reg.cache
               /\ wheel' = reg.wheel
               /\ IF rejected_by_registry(reg.result)
                  THEN /\ ev' = [call EXCEPT !.res = "Err(Registry)", !.chk = reg.result]
                       /\ UNCHANGED th
                  ELSE /\ ev' = ev
                       /\ th' = [th EXCEPT ![t] = [pc |-> "checked", id |-> challenge_id,
                                                   guess |-> selected_index,
                                                   result |-> reg.result,
                                                   valid |-> FALSE]]
          ELSE /\ ev' = ev
               /\ th' = [th EXCEPT ![t] = [pc |-> "checked", id |-> challenge_id,
                                           guess |-> selected_index,
                                           result |-> "none", valid |-> FALSE]]
               /\ UNCHANGED <<cache, wheel>>
    /\ UNCHANGED <<now, cfg, secret, gen, issued, hist, p, rg, sp>>

\* verify_challenge: the protocol's verification, which reads the clock
verify_protocol(t) ==
    /\ th[t].pc = "checked"
    /\ th' = [th EXCEPT ![t].pc = "verified",
                        ![t].valid = verify(secret, th[t].id, th[t].guess,
                                            cfg.challenge_ttl, now)]
    /\ UNCHANGED <<now, cfg, secret, gen, issued, cache, wheel, hist, calls, ev, p, rg, sp>>

\* verify_challenge: the registry's update and the return of Ok(valid)
verify_end(t) ==
    /\ th[t].pc = "verified"
    /\ cache' = IF ~cfg.registry THEN cache
                ELSE IF th[t].valid THEN registry_verify(cache, th[t].id)
                ELSE note_attempt(cache, th[t].id, FALSE)
    /\ ev' = [id |-> th[t].id, guess |-> th[t].guess, chk |-> "none",
              res |-> IF th[t].valid THEN "Ok(true)" ELSE "Ok(false)"]
    /\ hist' = Bump(hist, th[t].id, th[t].valid)
    /\ th' = [th EXCEPT ![t] = Idle]
    /\ UNCHANGED <<now, cfg, secret, gen, issued, wheel, calls, p, rg, sp>>

Next ==
    \/ Tick
    \/ \E d \in 1..MaxAnswer : generate_mint(d)
    \/ generate_register
    \/ \E t \in Threads, id \in Presentable, g \in GuessSample : verify_begin(t, id, g)
    \/ \E t \in Threads : verify_protocol(t)
    \/ \E t \in Threads : verify_end(t)

\* the manager with a registry attached, and without one
Spec == Init /\ [][Next]_vars
SpecNoRegistry == InitNoRegistry /\ [][Next]_vars

\* the same manager with a registry, its verify_challenge calls made one
\* after the other (generate_challenge and the clock still interleave)
NextSequential ==
    \/ Tick
    \/ \E d \in 1..MaxAnswer : generate_mint(d)
    \/ generate_register
    \/ \E t \in Threads, id \in Presentable, g \in GuessSample :
          (\A u \in Threads : th[u].pc = "idle") /\ verify_begin(t, id, g)
    \/ \E t \in Threads : verify_protocol(t)
    \/ \E t \in Threads : verify_end(t)

SpecSequential == Init /\ [][NextSequential]_vars

----------------------------------------------------------------------------
(* The manager, with or without a registry, given ids that are no well-formed
   id: the calls are made one after the other. *)

\* an authenticator the server's own key gives, for nonce "a", digit 5, second 0
SampleDigit == 5
SampleAuth(key) == Base64Encode(HmacSha256(key, Str(<<"a">>), SampleDigit, 0))

\* ids of fewer or more than three fields, ids whose timestamp field is no
\* decimal u64 (not a number, empty, beyond the width) and ids whose
\* authenticator field is no base64 of 32 bytes (a character outside the
\* alphabet, data after the padding, 0, 3 and 35 bytes); where the shape
\* allows, the authenticator is a true one
MalformedIds(key) ==
    Malformed \cup
    {Str(<<"a", ":", "0">>),
     Str(<<"a", ":", "0", ":">>) \o SampleAuth(key) \o Str(<<":", "x">>),
     Str(<<"a", ":", "0", "x", ":">>) \o SampleAuth(key),
     Str(<<"a", ":", ":">>) \o SampleAuth(key),
     Str(<<"a", ":", "2", "1", "4", "7", "4", "8", "3", "6", "4", "8", ":">>)
         \o SampleAuth(key),
     Str(<<"a", ":", "0", ":">>),
     Str(<<"a", ":", "0", ":", "A", "Q", "A", "Q">>) \o SampleAuth(key),
     Str(<<"a", ":", "0", ":">>) \o SampleAuth(key) \o Str(<<"A", "Q", "A", "Q">>)}

MalformedGuesses == {0, SampleDigit, MaxGuess}

MalformedConfigs ==
    [registry : BOOLEAN, challenge_ttl : {0, MaxTtl},
     ttl : {MaxTtl}, max_attempts : {MaxAttempts}]

InitMalformed ==
    /\ now \in 0..MaxStart
    /\ cfg \in MalformedConfigs
    /\ secret \in Secrets
    /\ gen = NotGenerating
    /\ issued = <<>>
    /\ cache = NoIds
    /\ wheel = NewWheel(cfg.ttl, now)
    /\ th = [t \in Threads |-> Idle]
    /\ hist = NoIds
    /\ calls = 0
    /\ ev = NoEvent
    /\ rg = NoRegistryUse
    /\ sp = NoSprite
    /\ p = NoProto

NextMalformed ==
    \/ Tick
    \/ \E t \in Threads, id \in MalformedIds(secret) \cup {<<>>}, g \in MalformedGuesses :
          (\A u \in Threads : th[u].pc = "idle") /\ verify_begin(t, id, g)
    \/ \E t \in Threads : verify_protocol(t)
    \/ \E t \in Threads : verify_end(t)

SpecMalformed == InitMalformed /\ [][NextMalformed]_vars

----------------------------------------------------------------------------
(* The registry on its own: register, check, verify and note_attempt called
   directly, one call after the other, on a few ids, as the seconds pass. *)

RegistryOnly ==
    [registry : {TRUE}, challenge_ttl : {0},
     ttl : 0..MaxTtl, max_attempts : 0..MaxAttempts]

InitRegistry == Start(RegistryOnly) /\ p = NoProto

TickRegistry ==
    /\ now < MaxRegTime
    /\ now' = now + 1
    /\ UNCHANGED <<cfg, secret, gen, issued, cache, wheel, th, hist, calls, ev, p, rg, sp>>

\* a call of the registry returns: what the history keeps of it
Returned(op, id, result, present, h) ==
    [rg EXCEPT !.hist[id] = h,
               !.ev = [op |-> op, id |-> id, at |-> now, ret |-> now,
                       result |-> result, present |-> present,
                       before |-> rg.hist[id], after |-> h],
               !.calls = @ + 1]

reg_register(id) ==
    /\ rg.calls < MaxRegCalls
    /\ LET r == register(cache, wheel, id, now, cfg.ttl)
       IN /\ cache' = r.cache
          /\ wheel' = r.wheel
          /\ rg' = Returned("register", id, "none", TRUE,
                            [regs |-> rg.hist[id].regs + 1,
                             done |-> rg.hist[id].done + 1, created_at |-> now,
                             fails |-> 0, verified |-> FALSE])
    /\ UNCHANGED <<now, cfg, secret, gen, issued, th, hist, calls, ev, p, sp>>

reg_check(id) ==
    /\ rg.calls < MaxRegCalls
    /\ LET r == check(cache, wheel, id, now, cfg.ttl, cfg.max_attempts)
       IN /\ cache' = r.cache
          /\ wheel' = r.wheel
          /\ rg' = Returned("check", id, r.result, id \in DOMAIN r.cache, rg.hist[id])
    /\ UNCHANGED <<now, cfg, secret, gen, issued, th, hist, calls, ev, p, sp>>

reg_verify(id) ==
    /\ rg.calls < MaxRegCalls
    /\ cache' = registry_verify(cache, id)
    /\ rg' = Returned("verify", id, "none", id \in DOMAIN cache,
                      [rg.hist[id] EXCEPT !.verified = TRUE])
    /\ UNCHANGED <<now, cfg, secret, gen, issued, wheel, th, hist, calls, ev, p, sp>>

reg_note_attempt(id, success) ==
    /\ rg.calls < MaxRegCalls
    /\ cache' = note_attempt(cache, id, success)
    /\ rg' = Returned("note_attempt", id, "none", id \in DOMAIN cache,
                      [rg.hist[id] EXCEPT !.fails = IF success THEN @ ELSE @ + 1])
    /\ UNCHANGED <<now, cfg, secret, gen, issued, wheel, th, hist, calls, ev, p, sp>>

NextRegistry ==
    \/ TickRegistry
    \/ \E id \in RegIds : reg_register(id)
    \/ \E id \in RegIds : reg_check(id)
    \/ \E id \in RegIds : reg_verify(id)
    \/ \E id \in RegIds, success \in BOOLEAN : reg_note_attempt(id, success)

SpecRegistry == InitRegistry /\ [][NextRegistry]_vars

\* The registry after new, register("a") in the same second and k calls of
\* note_attempt("a", false), for k = 0 and for k one short of the maximum of
\* the u16 counter.
FailedAttempts == {0, U16_MAX - 1}

InitFrame ==
    /\ now \in 0..MaxStart
    /\ cfg \in RegistryOnly
    /\ secret = "k1"
    /\ gen = NotGenerating
    /\ issued = <<>>
    /\ \E k \in FailedAttempts :
          /\ cache = note_attempts(register(NoIds, NewWheel(cfg.ttl, now),
                                            Str(<<"a">>), now, cfg.ttl).cache,
                                   Str(<<"a">>), k)
          /\ rg = [NoRegistryUse EXCEPT
                      !.hist[Str(<<"a">>)] =
                          [regs |-> 1, done |-> 1, created_at |-> now,
                           fails |-> k, verified |-> FALSE]]
    /\ wheel = register(NoIds, NewWheel(cfg.ttl, now), Str(<<"a">>), now, cfg.ttl).wheel
    /\ th = [t \in Threads |-> Idle]
    /\ hist = NoIds
    /\ calls = 0
    /\ ev = NoEvent
    /\ sp = NoSprite
    /\ p = NoProto

SpecFrame == InitFrame /\ [][NextRegistry]_vars

----------------------------------------------------------------------------
(* The registry used by concurrent callers of register and check; the
   history keeps the latest check that returned.  A call is a sequence of steps,
   each one operation on the DashMap or one section under the wheel's mutex:
   other callers' steps come in between.  While a caller holds the mutex no
   other caller sees the wheel, so the wheel takes its value after the sweep
   when the sweep begins, and the ids of the drained buckets wait in
   `pending` for their lookup and removal. *)

\* the ids advance_wheel takes out of the buckets in `steps` rotations
RECURSIVE DrainedIds(_, _)
DrainedIds(w, steps) ==
    IF steps = 0 THEN <<>>
    ELSE LET pos == (w.pos + 1) % w.len
         IN w.buckets[pos + 1]
              \o DrainedIds([w EXCEPT !.pos = pos, !.buckets[pos + 1] = <<>>], steps - 1)

\* the wheel's mutex is held by a caller inside advance_wheel
LockFree == \A u \in Threads : rg.th[u].pc \notin {"sweeping", "removing"}

\* register and check: the clock is read
rc_call(t, op, id) ==
    /\ rg.th[t].pc = "idle"
    /\ rg.calls < MaxConcCalls
    /\ LET h == IF op = "register" THEN [rg.hist[id] EXCEPT !.regs = @ + 1]
                ELSE rg.hist[id]
       IN rg' = [rg EXCEPT !.calls = @ + 1, !.hist[id] = h,
                           !.overlap = @ \/ (op = "register" /\ \E u \in Threads \ {t} :
                                                 rg.th[u].op = "register"),
                           !.th[t] = [pc |-> "called", op |-> op, id |-> id,
                                      at |-> now, pending |-> <<>>, before |-> h]]
    /\ UNCHANGED <<now, cfg, secret, gen, issued, cache, wheel, th, hist, calls, ev, p, sp>>

\* after a step of the sweep: the mutex is held while ids are pending
AfterSweepStep(rest) == IF rest = <<>> THEN "advanced" ELSE "sweeping"

\* advance_wheel: the mutex is taken, the cursor rotated, the buckets drained
rc_lock(t) ==
    /\ rg.th[t].pc = "called"
    /\ LockFree
    /\ LET at == rg.th[t].at IN
       IF at <= wheel.last_tick
       THEN /\ rg' = [rg EXCEPT !.th[t].pc = "advanced"]
            /\ UNCHANGED wheel
       ELSE LET steps == Min(at - wheel.last_tick, wheel.len)
                ids == DrainedIds(wheel, steps)
            IN /\ wheel' = [Rotate(NoIds, wheel, steps, at, cfg.ttl).wheel
                               EXCEPT !.last_tick = at]
               /\ rg' = [rg EXCEPT !.th[t].pc = AfterSweepStep(ids),
                                   !.th[t].pending = ids]
    /\ UNCHANGED <<now, cfg, secret, gen, issued, cache, th, hist, calls, ev, p, sp>>

\* advance_wheel: cache.get on a drained id and the test of its age
rc_get(t) ==
    /\ rg.th[t].pc = "sweeping"
    /\ LET id == Head(rg.th[t].pending)
           rest == Tail(rg.th[t].pending)
       IN IF id \in DOMAIN cache
              /\ GenuinelyExpired(rg.th[t].at, cache[id].timestamp, cfg.ttl)
          THEN rg' = [rg EXCEPT !.th[t].pc = "removing"]
          ELSE rg' = [rg EXCEPT !.th[t].pc = AfterSweepStep(rest),
                                !.th[t].pending = rest]
    /\ UNCHANGED <<now, cfg, secret, gen, issued, cache, wheel, th, hist, calls, ev, p, sp>>

\* advance_wheel: cache.remove on the id found expired
rc_remove(t) ==
    /\ rg.th[t].pc = "removing"
    /\ LET id == Head(rg.th[t].pending)
           rest == Tail(rg.th[t].pending)
       IN /\ cache' = [x \in (DOMAIN cache) \ {id} |-> cache[x]]
          /\ rg' = [rg EXCEPT !.th[t].pc = AfterSweepStep(rest),
                              !.th[t].pending = rest]
    /\ UNCHANGED <<now, cfg, secret, gen, issued, wheel, th, hist, calls, ev, p, sp>>

\* mutant: the insert replaces the map by the one record
rc_insert_alone(t) ==
    /\ rg.th[t].pc = "advanced"
    /\ rg.th[t].op = "register"
    /\ LET id == rg.th[t].id
           fresh == [verified |-> FALSE, attempts_count |-> 0, timestamp |-> rg.th[t].at]
       IN /\ cache' = [x \in {id} |-> fresh]
          /\ rg' = [rg EXCEPT !.th[t].pc = "inserted",
                              !.hist[id].created_at = rg.th[t].at,
                              !.hist[id].fails = 0,
                              !.hist[id].verified = FALSE]
    /\ UNCHANGED <<now, cfg, secret, gen, issued, wheel, th, hist, calls, ev, p, sp>>

\* register: cache.insert of the fresh record
rc_insert(t) ==
    /\ rg.th[t].pc = "advanced"
    /\ rg.th[t].op = "register"
    /\ LET id == rg.th[t].id
           fresh == [verified |-> FALSE, attempts_count |-> 0, timestamp |-> rg.th[t].at]
       IN /\ cache' = [x \in (DOMAIN cache) \cup {id} |->
                          IF x = id THEN fresh ELSE cache[x]]
          /\ rg' = [rg EXCEPT !.th[t].pc = "inserted",
                              !.hist[id].created_at = rg.th[t].at,
                              !.hist[id].fails = 0,
                              !.hist[id].verified = FALSE]
    /\ UNCHANGED <<now, cfg, secret, gen, issued, wheel, th, hist, calls, ev, p, sp>>

\* register: schedule_expiry under the mutex, and the return
rc_schedule(t) ==
    /\ rg.th[t].pc = "inserted"
    /\ LockFree
    /\ wheel' = schedule_expiry(wheel, rg.th[t].id, rg.th[t].at, cfg.ttl)
    /\ rg' = [rg EXCEPT !.hist[rg.th[t].id].done = @ + 1, !.th[t] = RegIdle]
    /\ UNCHANGED <<now, cfg, secret, gen, issued, cache, th, hist, calls, ev, p, sp>>

\* check: cache.get, the decision and the return
rc_lookup(t) ==
    /\ rg.th[t].pc = "advanced"
    /\ rg.th[t].op = "check"
    /\ LET id == rg.th[t].id
           result == check_result(cache, id, rg.th[t].at, cfg.ttl, cfg.max_attempts)
       IN rg' = [rg EXCEPT !.ev = [op |-> "check", id |-> id, at |-> rg.th[t].at,
                                   ret |-> now, result |-> result,
                                   present |-> id \in DOMAIN cache,
                                   before |-> rg.th[t].before,
                                   after |-> rg.hist[id]],
                           !.th[t] = RegIdle]
    /\ UNCHANGED <<now, cfg, secret, gen, issued, cache, wheel, th, hist, calls, ev, p, sp>>

NextConcurrent ==
    \/ Tick
    \/ \E t \in Threads, op \in {"register", "check"}, id \in RegIds : rc_call(t, op, id)
    \/ \E t \in Threads : rc_lock(t)
    \/ \E t \in Threads : rc_get(t)
    \/ \E t \in Threads : rc_remove(t)
    \/ \E t \in Threads : rc_insert(t)
    \/ \E t \in Threads : rc_schedule(t)
    \/ \E t \in Threads : rc_lookup(t)

SpecConcurrent == InitRegistry /\ [][NextConcurrent]_vars

----------------------------------------------------------------------------
(* The protocol on its own: one build_challenge_id and, some seconds later,
   one call of verify on the minted id, on a forgery of it or on a malformed
   string, with any key, guess and ttl. *)

Ttls == 0..MaxTtl \cup {U64_MAX}

InitProtocol ==
    /\ Start({[registry |-> FALSE, challenge_ttl |-> 0, ttl |-> 0, max_attempts |-> 0]})
    /\ p = [NoProto EXCEPT !.pc = "start"]

mint(key, answer) ==
    /\ p.pc = "start"
    /\ p' = [p EXCEPT !.pc = "minted", !.key = key, !.answer = answer,
                       !.timestamp = now,
                       !.id = build_challenge_id(answer, key, Nonce(1), now)]
    /\ UNCHANGED <<now, cfg, secret, gen, issued, cache, wheel, th, hist, calls, ev, rg, sp>>

call_verify(kind, pkey, presented, vkey, guess, ttl) ==
    /\ p.pc = "minted"
    /\ p' = [p EXCEPT !.pc = "verified", !.kind = kind, !.pkey = pkey,
                       !.presented = presented, !.vkey = vkey, !.guess = guess,
                       !.ttl = ttl, !.at = now,
                       !.result = verify(vkey, presented, guess, ttl, now),
                       !.steps = verify_steps(vkey, presented, guess, ttl, now)]
    /\ UNCHANGED <<now, cfg, secret, gen, issued, cache, wheel, th, hist, calls, ev, rg, sp>>

\* verify on the id that was minted
verify_minted ==
    \E vkey \in Secrets, g \in 0..MaxGuess, ttl \in Ttls :
        call_verify("minted", p.key, p.id, vkey, g, ttl)

\* verify on the minted id's nonce and timestamp with an authenticator
\* computed under another key for some digit
verify_forged ==
    \E vkey \in Secrets, g \in 0..MaxGuess, ttl \in Ttls :
      \E d \in {p.answer, g} \cap Digits :
        call_verify("forged", OtherSecret(p.key),
                    build_challenge_id(d, OtherSecret(p.key), Nonce(1), p.timestamp),
                    vkey, g, ttl)

\* verify on a string that is no well-formed id
verify_malformed ==
    \E vkey \in Secrets, g \in 0..MaxGuess, ttl \in Ttls, id \in Malformed :
        call_verify("malformed", vkey, id, vkey, g, ttl)

\* tokens of three fields of which one is empty: the nonce, with the
\* authenticator build_challenge_id computes under the minting key over the
\* empty nonce; the timestamp; the authenticator
EmptyField(kind) ==
    IF kind = "empty_nonce"
    THEN build_challenge_id(p.answer, p.key, <<>>, p.timestamp)
    ELSE IF kind = "empty_timestamp"
    THEN Nonce(1) \o <<Colon>> \o <<Colon>> \o Split(p.id)[3]
    ELSE Nonce(1) \o <<Colon>> \o FormatU64(p.timestamp) \o <<Colon>>
EmptyKinds == {"empty_nonce", "empty_timestamp", "empty_authenticator"}

\* verify on a token with an empty field
verify_empty_field ==
    \E vkey \in Secrets, g \in 0..MaxGuess, ttl \in Ttls, kind \in EmptyKinds :
        call_verify(kind, p.key, EmptyField(kind), vkey, g, ttl)

NextProtocol ==
    \/ p.pc # "verified" /\ Tick
    \/ \E key \in Secrets, answer \in Digits : mint(key, answer)
    \/ verify_minted
    \/ verify_forged
    \/ verify_malformed
    \/ verify_empty_field

SpecProtocol == InitProtocol /\ [][NextProtocol]_vars

----------------------------------------------------------------------------
(* Claims about the protocol, under SpecProtocol *)

Verified == p.pc = "verified"
\* the call of verify was made while the id was within its ttl
WithinTtl == p.at <= p.timestamp \/ p.at - p.timestamp <= p.ttl

\* C3: for every secret and every answer digit in 1..9, verify of a freshly
\* minted id with the same secret and the same digit returns true while the
\* id is within its ttl.
C3_CorrectDigitVerifies ==
    (Verified /\ p.kind = "minted" /\ p.vkey = p.key /\ p.guess = p.answer /\ WithinTtl)
        => p.result = TRUE

C3_Witness ==
    /\ Verified /\ p.kind = "minted" /\ p.key = "k2" /\ p.vkey = "k2"
    /\ p.answer = 9 /\ p.guess = 9 /\ p.ttl = 2 /\ p.at = p.timestamp + 1
    /\ p.result = TRUE

\* C4: for every secret, every answer digit and every guessed byte other
\* than the answer (0 and bytes above 9 included), verify of an id minted
\* for the answer returns false.
C4_WrongDigitFails ==
    (Verified /\ p.kind = "minted" /\ p.guess # p.answer) => p.result = FALSE

C4_Witness ==
    /\ Verified /\ p.kind = "minted" /\ p.vkey = p.key /\ WithinTtl
    /\ p.answer = 1 /\ p.guess = 0 /\ p.result = FALSE

\* C5: an id never verifies under a secret other than the one its
\* authenticator was computed with, whatever the guess: neither a minted id
\* under another secret, nor a forgery (a real id's nonce and timestamp, the
\* authenticator computed under another secret) under the real secret.
C5_OtherSecretFails ==
    (Verified /\ p.kind \in {"minted", "forged"} /\ p.vkey # p.pkey) => p.result = FALSE

C5_Witness ==
    /\ Verified /\ p.kind = "forged" /\ p.vkey = p.key /\ p.pkey # p.key
    /\ p.guess \in Digits /\ p.guess # p.answer /\ WithinTtl
    /\ Split(p.presented)[3] = Base64Encode(HmacSha256(p.pkey, Nonce(1), p.guess, p.timestamp))
    /\ p.result = FALSE

\* C6: verify of a minted id with its secret and the correct digit returns
\* true exactly while now <= timestamp + ttl and false from the first second
\* after; with ttl = 0 that is true in the second of minting and false one
\* second later.
C6_ExpiryBoundary ==
    (Verified /\ p.kind = "minted" /\ p.vkey = p.key /\ p.guess = p.answer)
        => (p.result <=> WithinTtl)

C6_Witness ==
    /\ Verified /\ p.kind = "minted" /\ p.vkey = p.key /\ p.guess = p.answer
    /\ p.ttl = 0 /\ p.at = p.timestamp + 1 /\ p.result = FALSE

\* C24: for a fixed well-formed, unexpired id, the steps verify executes
\* after the expiry test (the HMAC recomputation, the base64 decoding, the
\* length test and the comparison over all bytes) are the same for the
\* correct digit and for any wrong digit: the steps of the call made are
\* those every other guess would have taken on the same id, at the same
\* second, under the same key and ttl, and the comparison visits all
\* HMAC_LEN bytes wherever the first differing byte is.
C24_StepsIndependentOfGuess ==
    (Verified /\ p.kind = "minted" /\ WithinTtl)
        => /\ \A g \in 0..MaxGuess :
                verify_steps(p.vkey, p.presented, g, p.ttl, p.at) = p.steps
           /\ Len(p.steps) = 7 + HMAC_LEN

\* a wrong digit whose HMAC value differs from the expected one from its
\* second byte on: the call returns false after all the steps
C24_Witness ==
    /\ Verified /\ p.kind = "minted" /\ WithinTtl /\ p.vkey = p.key
    /\ p.answer = 3 /\ p.guess = 1 /\ p.result = FALSE
    /\ Bytes(HmacSha256(p.vkey, Nonce(1), p.guess, p.timestamp))[1]
         = Bytes(HmacSha256(p.key, Nonce(1), p.answer, p.timestamp))[1]
    /\ Bytes(HmacSha256(p.vkey, Nonce(1), p.guess, p.timestamp))[2]
         # Bytes(HmacSha256(p.key, Nonce(1), p.answer, p.timestamp))[2]
    /\ Len(p.steps) = 7 + HMAC_LEN
    /\ p.steps[Len(p.steps)].op = "ct_eq_byte"

----------------------------------------------------------------------------
(* Claims about the manager *)

FalseCount(id) == IF id \in DOMAIN hist THEN hist[id].ok_false ELSE 0

\* a step that begins a verify_challenge call; the call either goes on to
\* the protocol (thread t holds its arguments) or has returned (ev' holds
\* its arguments and its result)
Began == calls' = calls + 1
GoesOn(t) == th[t].pc = "idle" /\ th'[t].pc = "checked"
\* the steps in which thread t runs the protocol, and in which it returns
RunsProtocol(t) == th[t].pc = "checked" /\ th'[t].pc = "verified"
Ends(t) == th[t].pc = "verified" /\ th'[t].pc = "idle"
WellFormedInput(id, guess) == id # <<>> /\ guess \in 1..9

\* C1 (as claimed): with a registry attached, for every challenge id at most
\* one verify_challenge call ever returns Ok(true), under any interleaving
\* of concurrent calls on that id.
C1_AtMostOneOkTrue ==
    cfg.registry => \A id \in DOMAIN hist : hist[id].ok_true <= 1

\* C2 (as claimed): with max_attempts = m, at most m verify_challenge calls
\* on the same id return Ok(false), under any interleaving of concurrent
\* calls on that id.
C2_AtMostMaxOkFalse ==
    cfg.registry => \A id \in DOMAIN hist : hist[id].ok_false <= cfg.max_attempts

\* C7: once max_attempts sequential calls on an id have returned Ok(false),
\* every later call on that id with a well-formed input, the correct digit
\* included, returns Err(Registry(MaxAttemptsLimitExceeded)) as long as the
\* record is in the map; none goes on to the protocol or returns Ok(true).
C7_LimitLocksOut ==
    [][ /\ Began =>
            /\ \A t \in Threads : GoesOn(t) =>
                  ~(FalseCount(th'[t].id) >= cfg.max_attempts
                      /\ th'[t].id \in DOMAIN cache')
            /\ ( /\ th' = th
                 /\ WellFormedInput(ev'.id, ev'.guess)
                 /\ FalseCount(ev'.id) >= cfg.max_attempts
                 /\ ev'.id \in DOMAIN cache' )
                  => /\ ev'.res = "Err(Registry)"
                     /\ ev'.chk = "MaxAttemptsLimitExceeded"
        /\ \A t \in Threads : (Ends(t) /\ th[t].valid) =>
              FalseCount(th[t].id) < cfg.max_attempts
      ]_vars

C7_Witness ==
    /\ ev.res = "Err(Registry)" /\ ev.chk = "MaxAttemptsLimitExceeded"
    /\ cfg.max_attempts >= 1
    /\ FalseCount(ev.id) >= cfg.max_attempts
    /\ \E i \in 1..Len(issued) :
          ev.id = issued[i].challenge_id /\ ev.guess = issued[i].correct_number

\* C8: verify_challenge returns Err(InvalidInput) whenever the id is empty
\* or the guess is 0 or above 9, whatever the registry holds, and before it
\* consults the registry: the map and the wheel are as they were.
C8_InvalidInputFirst ==
    [][ Began =>
          /\ \A t \in Threads : GoesOn(t) => WellFormedInput(th'[t].id, th'[t].guess)
          /\ (th' = th /\ ~WellFormedInput(ev'.id, ev'.guess))
                => ev'.res = "Err(InvalidInput)" /\ UNCHANGED <<cache, wheel>>
      ]_vars

C8_Witness ==
    /\ ev.res = "Err(InvalidInput)" /\ ev.guess = 10
    /\ ev.id \in DOMAIN cache
    /\ cache[ev.id].attempts_count = 1
    /\ now > wheel.last_tick

\* C9: when the registry's check returns a result r other than Ok,
\* verify_challenge returns Err(Registry(r)) without running the protocol
\* and without changing a record: no attempt is counted and no record is
\* marked verified, also when the guess is the correct digit.
C9_RegistryRejects ==
    [][ Began =>
          /\ \A t \in Threads : GoesOn(t) => th'[t].result = "Ok"
          /\ (th' = th /\ ev'.chk # "none")
                => /\ ev'.res = "Err(Registry)"
                   /\ ev'.chk \in {"AlreadyVerified", "NotRegistered",
                                   "MaxAttemptsLimitExceeded"}
                   /\ hist' = hist
                   /\ \A id \in DOMAIN cache' : cache'[id] = cache[id]
      ]_vars

C9_Witness ==
    /\ ev.res = "Err(Registry)" /\ ev.chk = "AlreadyVerified"
    /\ \E i \in 1..Len(issued) :
          /\ ev.id = issued[i].challenge_id /\ ev.guess = issued[i].correct_number
          /\ ev.id \in DOMAIN cache /\ cache[ev.id].attempts_count = 0

\* the id is one the manager issued, the guess is its digit and the second
\* t is within its ttl
FreshAndCorrect(id, guess, t) ==
    \E i \in 1..Len(issued) :
        /\ id = issued[i].challenge_id
        /\ guess = issued[i].correct_number
        /\ t <= issued[i].timestamp + cfg.challenge_ttl

\* C10: without a registry, verify_challenge with a non-empty id and a
\* guess in 1..9 never returns an error, and returns Ok(false) unless the id
\* is an unexpired issued id and the guess its digit: an expired, a forged,
\* a malformed and a wrong-digit id all give the same Ok(false).
C10_FailuresAlike ==
    [][ /\ Began =>
            (th' = th => ev'.res = "Err(InvalidInput)"
                           /\ ~WellFormedInput(ev'.id, ev'.guess))
        /\ \A t \in Threads :
              /\ (RunsProtocol(t) /\ th'[t].valid) =>
                    FreshAndCorrect(th[t].id, th[t].guess, now)
              /\ Ends(t) =>
                    ev'.res = (IF th[t].valid THEN "Ok(true)" ELSE "Ok(false)")
      ]_vars

C10_Witness ==
    /\ ev.res = "Ok(false)"
    /\ \E i \in 1..Len(issued) :
          /\ ev.id = issued[i].challenge_id /\ ev.guess = issued[i].correct_number
          /\ now > issued[i].timestamp + cfg.challenge_ttl
    /\ \E t \in Threads :
          th[t].pc = "verified" /\ ~th[t].valid /\ th[t].id = Forged(issued[1])

\* C36: without a registry verify_challenge is stateless: no call is turned
\* away by a registry and none writes a record or moves a wheel, and the
\* protocol's answer is decided by the id, the guess, the secret, the ttl and
\* the second of the call alone, whatever calls were made before: it is true
\* exactly for an issued id within its ttl presented with its digit, so two
\* such calls return the same and a token verifies any number of times
\* before it expires.
C36_StatelessWithoutRegistry ==
    [][ /\ cache' = cache /\ wheel' = wheel
        /\ Began => ev'.res # "Err(Registry)"
        /\ \A t \in Threads :
              RunsProtocol(t) =>
                 (th'[t].valid <=> FreshAndCorrect(th[t].id, th[t].guess, now))
      ]_vars

\* the one issued id has been verified successfully twice and a third call
\* on it, with the same guess, has run the protocol and is valid again
C36_Witness ==
    /\ ~cfg.registry
    /\ Len(issued) = 1
    /\ issued[1].challenge_id \in DOMAIN hist
    /\ hist[issued[1].challenge_id].ok_true = 2
    /\ \E t \in Threads :
          /\ th[t].pc = "verified" /\ th[t].valid
          /\ th[t].id = issued[1].challenge_id

TrueCount(id) == IF id \in DOMAIN hist THEN hist[id].ok_true ELSE 0

\* C30: with a registry attached, after a verify_challenge call on an id
\* has returned Ok(true), every later sequential call on that id with a
\* well-formed input returns Err(Registry(AlreadyVerified)) while the record
\* is in the map and Err(Registry(NotRegistered)) once it has been removed;
\* none goes on to the protocol, and none returns Ok(true) again.
C30_VerifiedOnce ==
    [][ /\ Began =>
            /\ \A t \in Threads : GoesOn(t) => TrueCount(th'[t].id) = 0
            /\ ( /\ th' = th
                 /\ WellFormedInput(ev'.id, ev'.guess)
                 /\ TrueCount(ev'.id) >= 1 )
                  => /\ ev'.res = "Err(Registry)"
                     /\ ev'.chk = IF ev'.id \in DOMAIN cache'
                                   THEN "AlreadyVerified" ELSE "NotRegistered"
        /\ \A t \in Threads : (Ends(t) /\ th[t].valid) => TrueCount(th[t].id) = 0
      ]_vars

\* the correct digit is presented again for an id that has verified and
\* whose record is in the map
C30_Witness ==
    /\ cfg.registry
    /\ ev.res = "Err(Registry)" /\ ev.chk = "AlreadyVerified"
    /\ TrueCount(ev.id) = 1 /\ ev.id \in DOMAIN cache
    /\ \E i \in 1..Len(issued) :
          ev.id = issued[i].challenge_id /\ ev.guess = issued[i].correct_number

\* the same after a sweep has removed the record
C30_WitnessRemoved ==
    /\ cfg.registry
    /\ ev.res = "Err(Registry)" /\ ev.chk = "NotRegistered"
    /\ TrueCount(ev.id) = 1 /\ ev.id \notin DOMAIN cache
    /\ \E i \in 1..Len(issued) :
          ev.id = issued[i].challenge_id /\ ev.guess = issued[i].correct_number

----------------------------------------------------------------------------
(* Claims about ids that are no well-formed id *)

\* C11 (as claimed): protocol verify returns false for every id that does
\* not split into exactly three fields, whose timestamp field is no decimal
\* u64 or whose authenticator field is no base64 of exactly the HMAC length;
\* through the manager such an id gives Ok(false) or Err(InvalidInput),
\* never Ok(true).
C11_MalformedAsClaimed ==
    /\ \A t \in Threads : th[t].pc = "verified" => ~th[t].valid
    /\ ev.res \in {"none", "Ok(false)", "Err(InvalidInput)"}

\* C11 (amended): protocol verify returns false for every such id; through
\* a manager without a registry the id gives Ok(false), or Err(InvalidInput)
\* when the id is empty or the guess is not in 1..9; through a manager with
\* a registry it gives Err(Registry(NotRegistered)) instead of Ok(false),
\* as no such id is ever registered; it never gives Ok(true).
C11_MalformedNeverVerifies ==
    /\ \A t \in Threads : th[t].pc = "verified" => ~th[t].valid
    /\ \A id \in DOMAIN hist : hist[id].ok_true = 0
    /\ ev.res # "none" =>
          /\ ev.res = (IF ~WellFormedInput(ev.id, ev.guess) THEN "Err(InvalidInput)"
                       ELSE IF cfg.registry THEN "Err(Registry)" ELSE "Ok(false)")
          /\ ev.res = "Err(Registry)" => ev.chk = "NotRegistered"

C11_Witness ==
    /\ ev.res = "Ok(false)"
    /\ ev.id = Str(<<"a", ":", "0", ":">>) \o SampleAuth(secret) \o Str(<<":", "x">>)
    /\ ev.guess = SampleDigit
    /\ \E t \in Threads :
          /\ th[t].pc = "verified" /\ ~th[t].valid /\ th[t].guess = SampleDigit
          /\ th[t].id = Str(<<"a", ":", "0", ":", "A", "Q", "A", "Q">>) \o SampleAuth(secret)

\* C12 (as claimed): protocol verify returns false for every token in which
\* one of the three colon-separated fields is empty, the token with an empty
\* nonce and an authenticator computed with the server secret over the
\* empty nonce included.
C12_EmptyFieldRejected ==
    (Verified /\ p.kind \in EmptyKinds) => p.result = FALSE

----------------------------------------------------------------------------
(* Claims about the registry used on its own, under SpecRegistry: the calls
   are made one after the other, so when the latest call is a check, the
   history of its id is the history the check was made in. *)

Checked == rg.ev.op = "check"
OfChecked == rg.hist[rg.ev.id]
Registered(id) == rg.hist[id].regs > 0
\* seconds between the latest register of the checked id and the check
Age == rg.ev.at - OfChecked.created_at
\* the check is made in the second of the registration or less than ttl
\* seconds after it
BeforeTtlElapsed == Age = 0 \/ Age < cfg.ttl
\* since the latest register of the checked id, no verify and no
\* note_attempt(id, false) was made on it
Untouched == OfChecked.fails = 0 /\ ~OfChecked.verified

\* C13 (as claimed): for every registry configuration (ttl, max_attempts),
\* register(id) followed by check(id) before the ttl has elapsed, with no
\* verify or note_attempt on the id in between, returns Ok.
C13_RegisterThenCheckOk ==
    (Checked /\ Registered(rg.ev.id) /\ Untouched /\ BeforeTtlElapsed)
        => rg.ev.result = "Ok"

\* C13 (amended): for every registry configuration with max_attempts >= 1,
\* register(id) followed by check(id) before the ttl has elapsed, with no
\* verify or note_attempt on the id in between, returns Ok; with
\* max_attempts = 0 it returns MaxAttemptsLimitExceeded.
C13_RegisterThenCheckOkUnlessZero ==
    (Checked /\ Registered(rg.ev.id) /\ Untouched /\ BeforeTtlElapsed)
        => rg.ev.result = (IF cfg.max_attempts >= 1 THEN "Ok"
                           ELSE "MaxAttemptsLimitExceeded")

C13_Witness ==
    /\ Checked /\ rg.ev.result = "Ok" /\ Untouched
    /\ OfChecked.regs = 2 /\ cfg.ttl = 2 /\ Age = 1 /\ cfg.max_attempts = 1

\* C31: for a registered, unverified id with fewer failed attempts than
\* max_attempts, check returns Ok whenever now - created_at <= ttl, the
\* second created_at + ttl included, and NotRegistered only when
\* now - created_at > ttl, whether or not the sweep of that check call
\* visits the bucket of the id.
C31_OkThroughTtlInclusive ==
    (Checked /\ Registered(rg.ev.id) /\ ~OfChecked.verified
       /\ OfChecked.fails < cfg.max_attempts)
        => /\ (Age <= cfg.ttl => rg.ev.result = "Ok")
           /\ (rg.ev.result = "NotRegistered" => Age > cfg.ttl)

\* C14: after register(id) and then verify(id), every check(id) made while
\* the record is in the map returns AlreadyVerified, whatever number of
\* failed attempts was noted before or after the verify, and whatever the
\* age of the record: AlreadyVerified comes before MaxAttemptsLimitExceeded.
C14_VerifiedThenAlreadyVerified ==
    (Checked /\ Registered(rg.ev.id) /\ OfChecked.verified /\ rg.ev.present)
        => rg.ev.result = "AlreadyVerified"

C14_Witness ==
    /\ Checked /\ rg.ev.result = "AlreadyVerified" /\ rg.ev.present
    /\ cfg.max_attempts >= 1 /\ OfChecked.fails >= cfg.max_attempts
    /\ cache[rg.ev.id].attempts_count >= cfg.max_attempts

\* C15: for a registered, unverified id within its ttl, check returns
\* MaxAttemptsLimitExceeded if and only if the number of
\* note_attempt(id, false) calls since the registration is at least
\* max_attempts, and returns Ok while that number is smaller.
C15_LimitExactlyAtMax ==
    (Checked /\ Registered(rg.ev.id) /\ ~OfChecked.verified /\ BeforeTtlElapsed)
        => rg.ev.result = (IF OfChecked.fails >= cfg.max_attempts
                           THEN "MaxAttemptsLimitExceeded" ELSE "Ok")

C15_Witness ==
    /\ Checked /\ rg.ev.result = "MaxAttemptsLimitExceeded"
    /\ cfg.max_attempts = 2 /\ OfChecked.fails = 2 /\ ~OfChecked.verified
    /\ BeforeTtlElapsed

\* C16: check(id) returns NotRegistered for every id that was never
\* registered; verify(id) and note_attempt(id, _) on such an id create no
\* record, so the map never holds it and check still returns NotRegistered.
C16_UnregisteredStaysUnregistered ==
    /\ \A id \in RegIds : ~Registered(id) => id \notin DOMAIN cache
    /\ (Checked /\ ~Registered(rg.ev.id)) => rg.ev.result = "NotRegistered"

C16_Witness ==
    /\ Checked /\ ~Registered(rg.ev.id) /\ rg.ev.result = "NotRegistered"
    /\ OfChecked.verified /\ OfChecked.fails >= 1
    /\ cfg.max_attempts = 1

\* C18 (as claimed): expired entries become unobservable: for every
\* registered id, whatever its verified flag and its attempts, a check made
\* when now - created_at > ttl returns NotRegistered, as for an id that was
\* never registered.
C18_ExpiredUnobservable ==
    (Checked /\ Registered(rg.ev.id) /\ Age > cfg.ttl)
        => rg.ev.result = "NotRegistered"

\* C19: check never returns Ok for a record with now - created_at > ttl,
\* also when the record is still in the map because no sweep removed it.
C19_ExpiredNeverOk ==
    (Checked /\ Registered(rg.ev.id) /\ Age > cfg.ttl) => rg.ev.result # "Ok"

C19_Witness ==
    /\ Checked /\ rg.ev.result = "NotRegistered" /\ Age > cfg.ttl
    /\ rg.ev.present /\ rg.ev.id \in DOMAIN cache
    /\ ~cache[rg.ev.id].verified
    /\ cache[rg.ev.id].attempts_count < cfg.max_attempts

\* the id is held in some bucket of the wheel
Scheduled(id) == \E b \in 1..wheel.len : id \in Range(wheel.buckets[b])

\* C20 (as claimed): the lazy wheel reclaims every expired record: as
\* register and check calls keep occurring while time advances, every
\* record is removed from the map at some time after now >= created_at + ttl,
\* also a record registered after an idle period longer than ttl.  A sweep
\* removes only ids it takes out of a bucket, and only register(id) puts id
\* into a bucket; so once calls have been made at or after created_at + ttl,
\* a record still in the map must still be held in a bucket, or no later
\* register or check on other ids ever removes it.
C20_ExpiredReclaimed ==
    \A id \in DOMAIN cache :
        (wheel.last_tick > cache[id].timestamp
            /\ wheel.last_tick >= cache[id].timestamp + cfg.ttl)
          => Scheduled(id)

\* the buckets of the wheel that hold the id
BucketsOf(id) == {b \in 1..wheel.len : id \in Range(wheel.buckets[b])}

\* C21 (as claimed): in every reachable state of the registry, after any
\* sequence of register and check calls on any ids, no id is held in more
\* than one bucket of the wheel.
C21_OneBucketPerId ==
    \A id \in RegIds : Cardinality(BucketsOf(id)) <= 1

\* C22 (as claimed): in every reachable state of the registry each record's
\* attempts counter is at most max_attempts, for any sequence of registry
\* operations, note_attempt called directly included.
C22_AttemptsAtMostMax ==
    \A id \in DOMAIN cache : cache[id].attempts_count <= cfg.max_attempts

\* an id registered once whose record is younger than ttl is still scheduled
NotDrainedEarly ==
    \A id \in DOMAIN cache :
        (rg.hist[id].regs = 1 /\ now - cache[id].timestamp < cfg.ttl)
            => BucketsOf(id) # {}

\* C35: after every wheel advance the cursor equals last_tick mod len, with
\* len = max(ttl, 1), also after an advance whose gap exceeds len and is
\* clamped; so an id scheduled into bucket (now + ttl) mod len is drained
\* ttl seconds after its registration and not earlier.
C35_CursorFollowsLastTick ==
    /\ wheel.len = Max(cfg.ttl, 1)
    /\ wheel.pos = wheel.last_tick % wheel.len
    /\ NotDrainedEarly

\* the step is a call of `op` on `id` that returns
Calls(op, id) ==
    rg'.calls = rg.calls + 1 /\ rg'.ev.op = op /\ rg'.ev.id = id

\* C33: register(id) on an id that already has a record replaces it with a
\* fresh record (verified = false, attempts = 0, created_at = now) and
\* schedules the id for now + ttl; the record of an id registered again is
\* not removed, by the bucket of the earlier registration or otherwise,
\* before the new ttl has elapsed.
C33_ReRegisterReplacesAndReschedules ==
    [][\A id \in DOMAIN cache :
          /\ Calls("register", id)
                => /\ id \in DOMAIN cache'
                   /\ cache'[id] = [verified |-> FALSE, attempts_count |-> 0,
                                    timestamp |-> now]
                   /\ id \in Range(wheel'.buckets[((now + cfg.ttl) % wheel.len) + 1])
          /\ (rg.hist[id].regs >= 2 /\ id \notin DOMAIN cache')
                => /\ cache[id].timestamp = rg.hist[id].created_at
                   /\ now - cache[id].timestamp >= cfg.ttl]_vars

\* "a" was registered at second 0 and again at second 1 with ttl = 2; the
\* sweep of second 2 has drained the bucket of the first registration and
\* the record of the second is in the map, scheduled for second 3
C33_Witness ==
    /\ cfg.ttl = 2 /\ rg.hist[Str(<<"a">>)].regs = 2
    /\ wheel.last_tick = 2 /\ wheel.pos = 0
    /\ Str(<<"a">>) \in DOMAIN cache
    /\ cache[Str(<<"a">>)] = [verified |-> FALSE, attempts_count |-> 0, timestamp |-> 1]
    /\ BucketsOf(Str(<<"a">>)) = {2}

\* note_attempt(id, true): the history counts no failed attempt in the step
Succeeded(id) == rg'.hist[id].fails = rg.hist[id].fails

\* C34: verify and note_attempt never touch the wheel (buckets, cursor and
\* last_tick are unchanged) and never add or remove a record;
\* note_attempt(id, true) leaves the record unchanged, note_attempt(id, false)
\* changes only attempts, saturating at the maximum of the counter, and
\* verify changes only the verified flag.
C34_VerifyAndNoteAttemptFrame ==
    [][\A id \in RegIds :
          /\ (Calls("verify", id) \/ Calls("note_attempt", id))
                => /\ wheel' = wheel
                   /\ DOMAIN cache' = DOMAIN cache
                   /\ \A x \in DOMAIN cache \ {id} : cache'[x] = cache[x]
          /\ (Calls("verify", id) /\ id \in DOMAIN cache)
                => cache'[id] = [cache[id] EXCEPT !.verified = TRUE]
          /\ (Calls("note_attempt", id) /\ id \in DOMAIN cache /\ Succeeded(id))
                => cache'[id] = cache[id]
          /\ (Calls("note_attempt", id) /\ id \in DOMAIN cache /\ ~Succeeded(id))
                => cache'[id] =
                     [cache[id] EXCEPT !.attempts_count =
                         IF @ = U16_MAX THEN U16_MAX ELSE @ + 1]]_vars

\* a failed attempt was noted on a record whose counter was at its maximum,
\* and the record was then verified
C34_Witness ==
    /\ rg.ev.op = "verify" /\ rg.ev.id = Str(<<"a">>)
    /\ rg.hist[Str(<<"a">>)].fails = U16_MAX + 1
    /\ Str(<<"a">>) \in DOMAIN cache
    /\ cache[Str(<<"a">>)].attempts_count = U16_MAX
    /\ cache[Str(<<"a">>)].verified


----------------------------------------------------------------------------
(* The registry under a wall clock that may step backwards: get_timestamp
   reads the system time, which an adjustment can set to an earlier second *)

ClockStepsBack ==
    /\ rg.back < MaxBack
    /\ now > 0
    /\ \E t \in 0..(now - 1) : now' = t
    /\ rg' = [rg EXCEPT !.back = @ + 1]
    /\ UNCHANGED <<cfg, secret, gen, issued, cache, wheel, th, hist, calls, ev, p, sp>>

NextClock ==
    \/ TickRegistry
    \/ ClockStepsBack
    \/ \E id \in RegIds : reg_register(id)
    \/ \E id \in RegIds : reg_check(id)

SpecClock == InitRegistry /\ [][NextClock]_vars

\* a call that advances the wheel is made while the clock reads no more than
\* the wheel's last_tick
CallNotAfterLastTick ==
    /\ rg'.calls = rg.calls + 1
    /\ now <= wheel.last_tick

\* the wheel and the records are as the call found them, but for what
\* register itself inserts and schedules
AdvanceChangedNothing ==
    /\ wheel'.pos = wheel.pos
    /\ wheel'.last_tick = wheel.last_tick
    /\ \A id \in DOMAIN cache :
          id \in DOMAIN cache' /\ (id # rg'.ev.id => cache'[id] = cache[id])
    /\ \A b \in 1..wheel.len :
          wheel'.buckets[b] \in {wheel.buckets[b],
                                 Append(wheel.buckets[b], rg'.ev.id)}
    /\ rg'.ev.op = "check" => (cache' = cache /\ wheel' = wheel)

\* C23 (as claimed): a backward step of the wall clock does not make a record
\* live for ever.  Once the clock has stepped back and advanced again: a
\* check made after created_at + ttl never returns Ok; every record still in
\* the map is still held in a bucket of the wheel, so that the sweep reaching
\* that bucket removes it (a sweep removes only the ids it takes out of a
\* bucket); the wheel's last_tick never decreases; and an advance with
\* now <= last_tick changes nothing.
C23_ClockStepBackHarmless ==
    [][/\ wheel'.last_tick >= wheel.last_tick
       /\ CallNotAfterLastTick => AdvanceChangedNothing
       /\ (rg.back > 0 /\ Checked /\ Registered(rg.ev.id)
              /\ rg.ev.at > OfChecked.created_at + cfg.ttl)'
            => rg'.ev.result # "Ok"
       /\ rg'.back > 0 => \A id \in DOMAIN cache' : Scheduled(id)']_vars

----------------------------------------------------------------------------
(* Claims about the registry used by concurrent callers, under SpecConcurrent *)

\* C17: when several threads concurrently register distinct ids, no
\* registration is lost under any interleaving: a check of an id made after
\* the one register call on that id has returned, and returning within the
\* ttl, finds the record and returns Ok (MaxAttemptsLimitExceeded where
\* max_attempts = 0, the answer for a fresh record there), never
\* NotRegistered.
C17_NoRegistrationLost ==
    ( /\ Checked
      /\ rg.ev.before.regs = 1 /\ rg.ev.before.done = 1 /\ rg.ev.after.regs = 1
      /\ (rg.ev.ret = rg.ev.after.created_at
            \/ rg.ev.ret - rg.ev.after.created_at < cfg.ttl) )
        => /\ rg.ev.present
           /\ rg.ev.result = (IF cfg.max_attempts = 0 THEN "MaxAttemptsLimitExceeded"
                              ELSE "Ok")

C17_Witness ==
    /\ Checked /\ rg.ev.result = "Ok" /\ rg.overlap
    /\ \A id \in RegIds : rg.hist[id].regs = 1 /\ rg.hist[id].done = 1
    /\ rg.ev.before.done = 1
    /\ rg.ev.ret = rg.ev.after.created_at + 1 /\ cfg.ttl = 2

\* C32: a wheel sweep never removes a record that is not yet expired: no
\* record leaves the map while now - created_at < ttl, under any
\* interleaving of concurrent register and check calls, a register of the
\* same id running concurrently with the sweep included.
C32_SweepRemovesOnlyExpired ==
    [][\A id \in DOMAIN cache :
          id \notin DOMAIN cache' => now - cache[id].timestamp >= cfg.ttl]_vars

----------------------------------------------------------------------------
(* generate and the sprite composer: create_sprite (sprite.rs, and its copy
   in challenge.rs), encode_image (image.rs) and generate (challenge.rs).
   The random draws of the composer are choices; pixels are not modelled,
   a sprite is the tiles pasted on it. *)

correct_angle == 0
incorrect_angles == <<38, 88, 114, 138, 176, 200, 229, 255, 278, 314, 320>>
angles == <<correct_angle>> \o incorrect_angles

cols == 3
rows == 3
spacing == 4
Taken == 8

\* SliceRandom::shuffle leaves some permutation of the slice.  The outcomes
\* drawn are the rotations of the slice and of its reverse: every element
\* comes to every position, and every cyclic run of eight comes first.
ShuffleOutcomes(s) ==
    LET n == Len(s) IN
    {[i \in 1..n |-> s[IF rev THEN n - ((i - 1 + k) % n)
                              ELSE ((i - 1 + k) % n) + 1]] :
        k \in 0..(n - 1), rev \in BOOLEAN}

\* mutant: the eight other tiles are taken from the pool with the correct
\* angle in front of it
pick_tiles_from_all(others) ==
    <<[is_correct |-> TRUE, angle |-> correct_angle]>>
        \o [k \in 1..Min(Taken, Len(others)) |->
              [is_correct |-> FALSE, angle |-> (<<correct_angle>> \o others)[k]]]

\* the tiles before their shuffle: the correct one, then others.iter().take(8)
pick_tiles(others) ==
    <<[is_correct |-> TRUE, angle |-> correct_angle]>>
        \o [k \in 1..Min(Taken, Len(others)) |->
              [is_correct |-> FALSE, angle |-> others[k]]]

\* the pre-rotated image of the angle is found among the precomputed ones
precomputed_has(angle) == \E k \in DOMAIN angles : angles[k] = angle

\* tile_scale = 0.5 + random_range(0.0..0.3), in thousandths
TileScales == 500..799

\* (cell_size as f32 * tile_scale) as u32: the cast truncates
shrink_size_of(cell_size, scale) == (cell_size * scale) \div 1000

\* mutant: half the slack, rounded up
offset_of_rounded_up(cell_size, shrink_size) == (cell_size - shrink_size + 1) \div 2

\* offset_x, offset_y: (cell_size - shrink_size) / 2 on u32
offset_of(cell_size, shrink_size) == (cell_size - shrink_size) \div 2

\* random_range(-jitter_limit..=jitter_limit)
Jitters(jitter_limit) == (-jitter_limit)..jitter_limit

\* an i32 cast to u32: a negative value wraps to a value above i32::MAX
\* (the model keeps 31 bits: 2^31 + x stands for the code's 2^32 + x)
I32_MAX == 2147483647
as_u32(x) == IF x >= 0 THEN x ELSE (I32_MAX + x) + 1

\* the sizes the draws of tile_scale give a tile
ShrinkSizes(cell_size) == {shrink_size_of(cell_size, scale) : scale \in TileScales}

\* where tile i is pasted, for the draws of one iteration of the loop (the
\* mirror flip and the label's colour and shift change pixels only)
place(cell_size, i, shrink_size, jitter_x, jitter_y) ==
    LET col == i % cols
        row == i \div cols
        base_x == col * (cell_size + spacing)
        base_y == row * (cell_size + spacing)
        offset_x == offset_of(cell_size, shrink_size)
        offset_y == offset_of(cell_size, shrink_size)
    IN [shrink_size |-> shrink_size,
        base_x |-> base_x, base_y |-> base_y,
        signed_x |-> base_x + offset_x + jitter_x,
        signed_y |-> base_y + offset_y + jitter_y,
        draw_x |-> as_u32(base_x + offset_x + jitter_x),
        draw_y |-> as_u32(base_y + offset_y + jitter_y)]

sprite_width(cell_size) == cols * cell_size + (cols - 1) * spacing
sprite_height(cell_size) == rows * cell_size + (rows - 1) * spacing

\* GenericImage::copy_from: an error when the tile does not fit in the
\* sprite at (draw_x, draw_y)
copy_from_ok(cell_size, tile) ==
    /\ tile.draw_x + tile.shrink_size <= sprite_width(cell_size)
    /\ tile.draw_y + tile.shrink_size <= sprite_height(cell_size)

\* mutant: the grid index of the tile, not its label
number_of_index(i) == i % 256

\* (i + 1) as u8: the number of the tile at grid index i, which is the
\* label format!("{}", i + 1) drawn on it
number_of(i) == (i + 1) % 256

CellSizes == 0..MaxCell

InitSprite ==
    /\ now \in 0..MaxStart
    /\ cfg = [registry |-> FALSE, challenge_ttl |-> 0, ttl |-> 0, max_attempts |-> 0]
    /\ secret = "k1"
    /\ gen = NotGenerating
    /\ issued = <<>>
    /\ cache = NoIds
    /\ wheel = NewWheel(cfg.ttl, now)
    /\ th = [t \in Threads |-> Idle]
    /\ hist = NoIds
    /\ calls = 0
    /\ ev = NoEvent
    /\ p = NoProto
    /\ rg = NoRegistryUse
    /\ \E cell_size \in CellSizes :
          sp = [NoSprite EXCEPT !.pc = "start", !.cell_size = cell_size]

NotComposing == <<now, cfg, secret, gen, issued, cache, wheel, th, hist, calls, ev, p, rg>>

\* create_sprite returns an error, and generate returns it (the ? operator)
Failed(err) ==
    [sp EXCEPT !.pc = "returned", !.result = [NoResult EXCEPT !.err = err]]

\* create_sprite up to its loop: the source image is decoded or not; the
\* pool is shuffled, eight of it follow the correct tile, the nine are
\* shuffled
create_sprite_tiles ==
    /\ sp.pc = "start"
    /\ \/ sp' = Failed("DecodeError")
       \/ \E others \in ShuffleOutcomes(incorrect_angles) :
            \E tiles \in ShuffleOutcomes(pick_tiles(others)) :
                sp' = [sp EXCEPT !.pc = "loop", !.tiles = tiles, !.i = 0,
                                 !.correct_number = 0]
    /\ UNCHANGED NotComposing

\* one iteration of the loop over tiles.iter().enumerate()
create_sprite_tile ==
    /\ sp.pc = "loop"
    /\ sp.i < Len(sp.tiles)
    /\ LET i == sp.i
           is_correct == sp.tiles[i + 1].is_correct
           angle == sp.tiles[i + 1].angle
       IN \E shrink_size \in ShrinkSizes(sp.cell_size) :
          LET jitter_limit == offset_of(sp.cell_size, shrink_size)
          IN \E jitter_x \in Jitters(jitter_limit), jitter_y \in Jitters(jitter_limit) :
             LET tile == place(sp.cell_size, i, shrink_size, jitter_x, jitter_y)
             IN IF ~precomputed_has(angle)
                THEN sp' = Failed("Internal")
                ELSE IF ~copy_from_ok(sp.cell_size, tile)
                THEN sp' = [Failed("Internal") EXCEPT !.tile = tile]
                ELSE sp' = [sp EXCEPT
                        !.i = i + 1,
                        !.tile = tile,
                        !.placed = Append(@, [angle |-> angle,
                                              label |-> FormatU64(i + 1),
                                              at |-> i]),
                        !.correct_number = IF is_correct THEN number_of(i) ELSE @]
    /\ UNCHANGED NotComposing

\* the loop is over: Ok((sprite, correct_number))
create_sprite_return ==
    /\ sp.pc = "loop"
    /\ sp.i = Len(sp.tiles)
    /\ sp' = [sp EXCEPT !.pc = "composed"]
    /\ UNCHANGED NotComposing

\* the bytes an encoder writes (the start of a JPEG / of a WebP file)
JpegBytes == <<255, 216, 255>>
WebpBytes == <<82, 73, 70, 70>>

\* data:{mime};base64,{payload}: the payload has four characters for every
\* three bytes begun
sprite_to_base64(bytes, mime) ==
    <<"data:", mime, ";base64,",
      [len |-> 4 * ((Len(bytes) + 2) \div 3), of |-> bytes]>>

\* generate of challenge.rs, after create_sprite: the noise pass, the JPEG
\* encoder on a fresh buffer, whose error is mapped to EncodeError and
\* returned; else the data URI and the id for correct_number
generate(encoder_fails) ==
    /\ sp.pc = "composed"
    /\ sp' = IF encoder_fails
             THEN [Failed("EncodeError") EXCEPT !.encoder_failed = TRUE,
                                                !.by = "generate"]
             ELSE [sp EXCEPT
                     !.pc = "returned", !.by = "generate",
                     !.result = [ok |-> TRUE, err |-> "none",
                                 bytes |-> JpegBytes, mime |-> "image/jpeg",
                                 sprite |-> sprite_to_base64(JpegBytes, "image/jpeg"),
                                 challenge_id |->
                                     build_challenge_id(sp.correct_number, secret,
                                                        Nonce(1), now),
                                 correct_number |-> sp.correct_number]]
    /\ UNCHANGED NotComposing

SpriteFormats == {"Jpeg", "Webp"}
SpriteTargets == {"SpriteUri", "SpriteBinary"}

\* encode_image: the JPEG path returns an empty buffer with the mime when
\* the encoder returns an error; the WebP path returns what the encoder wrote
encode_image(fmt, encoder_fails) ==
    IF fmt = "Jpeg"
    THEN IF encoder_fails THEN [bytes |-> <<>>, mime |-> "image/jpeg"]
         ELSE [bytes |-> JpegBytes, mime |-> "image/jpeg"]
    ELSE [bytes |-> WebpBytes, mime |-> "image/webp"]

\* SpriteTarget::from_bytes for SpriteUri and for SpriteBinary
from_bytes(target, bytes, mime) ==
    IF target = "SpriteUri" THEN sprite_to_base64(bytes, mime) ELSE <<bytes, mime>>

\* generate::<T> for a sprite format and a delivery shape, after
\* create_sprite: the noise pass, encode_image, the shape the caller chose
\* and the id for correct_number
generate_as(fmt, target, encoder_fails) ==
    /\ sp.pc = "composed"
    /\ LET enc == encode_image(fmt, encoder_fails)
       IN sp' = [sp EXCEPT
                   !.pc = "returned", !.by = "generate_as",
                   !.encoder_failed = encoder_fails /\ fmt = "Jpeg",
                   !.result = [ok |-> TRUE, err |-> "none",
                               bytes |-> enc.bytes, mime |-> enc.mime,
                               sprite |-> from_bytes(target, enc.bytes, enc.mime),
                               challenge_id |->
                                   build_challenge_id(sp.correct_number, secret,
                                                      Nonce(1), now),
                               correct_number |-> sp.correct_number]]
    /\ UNCHANGED NotComposing

NextSprite ==
    \/ create_sprite_tiles
    \/ create_sprite_tile
    \/ create_sprite_return
    \/ \E encoder_fails \in BOOLEAN : generate(encoder_fails)
    \/ \E fmt \in SpriteFormats, target \in SpriteTargets, encoder_fails \in BOOLEAN :
          generate_as(fmt, target, encoder_fails)

SpecSprite == InitSprite /\ [][NextSprite]_vars

----------------------------------------------------------------------------
(* Claims about generate and the sprite composer, under SpecSprite *)

Composed == sp.pc = "composed"
\* the grid positions (from 1) of the tiles pasted at the angle
TilesAt(angle) == {k \in 1..Len(sp.placed) : sp.placed[k].angle = angle}

\* C26: in every composed sprite, for every outcome of the two shuffles,
\* exactly one of the nine tiles is at 0 degrees and the other eight carry
\* pairwise distinct angles taken from the pool of eleven incorrect angles.
C26_OneUprightEightDistinct ==
    Composed
        => /\ Len(sp.placed) = 9
           /\ Cardinality(TilesAt(correct_angle)) = 1
           /\ \A k \in 1..Len(sp.placed) :
                 \/ sp.placed[k].angle = correct_angle
                 \/ /\ sp.placed[k].angle \in Range(incorrect_angles)
                    /\ TilesAt(sp.placed[k].angle) = {k}

\* the upright tile is pasted last, and the first angle of the pool is among
\* the three left out
C26_Witness ==
    /\ Composed
    /\ sp.placed[9].angle = correct_angle
    /\ TilesAt(incorrect_angles[1]) = {}
    /\ TilesAt(incorrect_angles[11]) # {}

\* C27: the digit the composer returns is the grid index of the 0-degree
\* tile plus one, which is the label drawn on that tile; it is in 1..9 and
\* never the initial value 0, for every outcome of the shuffle.
C27_NumberIsUprightLabel ==
    Composed
        => /\ sp.correct_number \in 1..9
           /\ \A k \in TilesAt(correct_angle) :
                 /\ sp.correct_number = sp.placed[k].at + 1
                 /\ FormatU64(sp.correct_number) = sp.placed[k].label
                 /\ sp.placed[k].at = k - 1

\* the upright tile is the first of the grid, of index 0 and label "1"
C27_Witness ==
    /\ Composed
    /\ TilesAt(correct_angle) = {1}
    /\ sp.placed[1].label = Str(<<"1">>)
    /\ sp.correct_number = 1

\* a tile has been pasted, or copy_from has refused it
Pasted == sp.pc \in {"loop", "composed", "returned"} /\ sp.tile # NoTile

\* C28: for every cell_size, every size of the shrunk tile and every jitter
\* the code can draw, the paste origin is non-negative on each axis before
\* the cast to unsigned, and the pasted tile lies inside its grid cell:
\* base <= draw and draw + shrink_size <= base + cell_size.
C28_TileInsideItsCell ==
    Pasted
        => /\ sp.tile.shrink_size <= sp.cell_size
           /\ sp.tile.signed_x >= 0 /\ sp.tile.signed_y >= 0
           /\ sp.tile.base_x <= sp.tile.draw_x
           /\ sp.tile.draw_x + sp.tile.shrink_size <= sp.tile.base_x + sp.cell_size
           /\ sp.tile.base_y <= sp.tile.draw_y
           /\ sp.tile.draw_y + sp.tile.shrink_size <= sp.tile.base_y + sp.cell_size

\* an odd slack of three pixels: the tile is pushed to the right edge of its
\* cell by the largest jitter and to the top edge by the smallest
C28_Witness ==
    /\ Pasted
    /\ sp.cell_size = 5 /\ sp.tile.shrink_size = 2
    /\ sp.tile.base_x > 0
    /\ sp.tile.draw_x = sp.tile.base_x + 2
    /\ sp.tile.draw_y = sp.tile.base_y

----------------------------------------------------------------------------
(* build_challenge_id over the whole range of a u64 clock reading.  Such a
   reading is kept as its limbs in base 10^4, most significant first and
   not zero unless the reading is 0: u64::MAX = 18446744073709551615 is
   <<1844, 6744, 737, 955, 1615>>. *)

LIMB == 10000
U64MaxLimbs == <<1844, 6744, 737, 955, 1615>>

\* the limbs are those of a u64: at most five, and not above u64::MAX
RECURSIVE LimbsLeq(_, _)
LimbsLeq(a, b) ==
    IF a = <<>> THEN TRUE
    ELSE IF Head(a) # Head(b) THEN Head(a) < Head(b)
    ELSE LimbsLeq(Tail(a), Tail(b))
IsU64(limbs) ==
    \/ Len(limbs) < Len(U64MaxLimbs)
    \/ Len(limbs) = Len(U64MaxLimbs) /\ LimbsLeq(limbs, U64MaxLimbs)

\* clock readings of every number of decimal digits from 1 to 20
WideHeads == {1, 9, 10, 99, 100, 999, 1000, 1844, 9999}
WideClocks ==
    {<<0>>, U64MaxLimbs}
      \cup {limbs \in {<<h>> \o [i \in 1..k |-> r] :
                          h \in WideHeads, k \in 0..4, r \in {0, LIMB - 1}} :
              IsU64(limbs)}

\* the four decimal digits of a limb that is not the first
Pad4(n) ==
    Str(<<DigitChars[(n \div 1000) + 1], DigitChars[((n \div 100) % 10) + 1],
          DigitChars[((n \div 10) % 10) + 1], DigitChars[(n % 10) + 1]>>)

\* Display of a u64: its decimal digits, no sign, no leading zero
RECURSIVE FormatLimbs(_)
FormatLimbs(limbs) ==
    IF limbs = <<>> THEN <<>> ELSE Pad4(Head(limbs)) \o FormatLimbs(Tail(limbs))
FormatWide(limbs) == FormatU64(Head(limbs)) \o FormatLimbs(Tail(limbs))

\* mutant: the id ends with a separator
build_challenge_id_trailing(correct_number, key, nonce, limbs) ==
    nonce \o <<Colon>> \o FormatWide(limbs) \o <<Colon>>
          \o Base64Encode(<<key, nonce, correct_number, limbs>>) \o <<Colon>>

\* build_challenge_id for a clock reading given by its limbs; the HMAC value
\* names the reading in place of its eight bytes
build_challenge_id_wide(correct_number, key, nonce, limbs) ==
    nonce \o <<Colon>> \o FormatWide(limbs) \o <<Colon>>
          \o Base64Encode(<<key, nonce, correct_number, limbs>>)

InitWide ==
    /\ Start({[registry |-> FALSE, challenge_ttl |-> 0, ttl |-> 0, max_attempts |-> 0]})
    /\ p = [NoProto EXCEPT !.pc = "start"]

mint_wide(key, answer, k, clock) ==
    /\ p.pc = "start"
    /\ p' = [p EXCEPT !.pc = "minted", !.key = key, !.answer = answer,
                       !.timestamp = clock,
                       !.id = build_challenge_id_wide(answer, key, Nonce(k), clock)]
    /\ UNCHANGED <<now, cfg, secret, gen, issued, cache, wheel, th, hist, calls, ev, rg, sp>>

NextWide ==
    \E key \in Secrets, answer \in Digits, k \in DOMAIN NonceChars, clock \in WideClocks :
        mint_wide(key, answer, k, clock)

SpecWide == InitWide /\ [][NextWide]_vars

----------------------------------------------------------------------------
(* Claims about the length of an id, under SpecWide *)

Minted == p.pc = "minted"

\* C29 (as claimed): every id build_challenge_id produces is at most 101
\* characters long, for every timestamp of the unsigned 64-bit range.
C29_AtMost101 == Minted => StrLen(p.id) <= 101

\* C29 (amended): every id is at most 102 characters long, for every
\* timestamp of the unsigned 64-bit range: the 36 characters of the nonce,
\* the 1 to 20 decimal digits of the timestamp, the 44 of the authenticator
\* and two colons.
C29_AtMost102 ==
    Minted
        => /\ StrLen(p.id) <= 102
           /\ StrLen(p.id) = UUID_LEN + StrLen(FormatWide(p.timestamp)) + B64_HMAC_LEN + 2
           /\ StrLen(FormatWide(p.timestamp)) \in 1..20

\* an id minted at u64::MAX is 102 characters long
C29_Witness ==
    /\ Minted /\ p.timestamp = U64MaxLimbs
    /\ StrLen(FormatWide(p.timestamp)) = 20
    /\ StrLen(p.id) = 102

====
